---- MODULE Spec2Model ----
(***************************************************************************)
(* FarmBeats prototype dashboard (src/main.py): a Streamlit script that is *)
(* re-executed from top to bottom after every user interaction.  The model *)
(* keeps the widget values (page, weather_state, wind_dir, the button), the *)
(* position of the running script (pc), the locals of show_dashboard, and  *)
(* what the run has put on the screen.                                     *)
(*                                                                         *)
(* Real numbers: the energy samples are multiples of 0.5, so every sample  *)
(* is stored in half-units (62.5 is stored as 125).  The arithmetic of the *)
(* source (ints and binary floats with one fractional bit) is exact on     *)
(* these values.                                                           *)
(***************************************************************************)
EXTENDS Integers, Sequences, FiniteSets, TLC

VARIABLES
    page,           \* st.radio("Navigate", ...)                     line 357
    weather_state,  \* st.selectbox("Simulate Weather Condition")    line 79
    wind_dir,       \* st.selectbox("Wind Direction")                line 143
    clicked,        \* st.button("Calculate Optimal Path") in this run, line 146
    pc,             \* position of the script run; "idle" between runs
    impact,         \* tuple returned by get_weather_impact (line 80), <<>> if unbound
    hours,          \* local hours of show_dashboard (line 103), <<>> if unbound
    energy,         \* local energy of show_dashboard (lines 104-107), half-units
    metrics,        \* st.metric "Solar Battery" and "System Mode" as displayed
    chart,          \* the figure handed to st.plotly_chart: <<x, y>>
    content,        \* the page body the run has rendered, "" if none yet
    spinner,        \* st.spinner visible
    elapsed,        \* half-seconds slept inside time.sleep(1.5)
    success,        \* st.success("Path Optimized: ...") emitted in this run
    history         \* the last HistLen resolve cycles: condition, tuple, series

vars == <<page, weather_state, wind_dir, clicked, pc, impact, hours, energy,
          metrics, chart, content, spinner, elapsed, success, history>>

----------------------------------------------------------------------------
(* Bounds of the model *)

\* how many past resolve cycles the history keeps
HistLen == 3

\* how many values outside the three options the function harness supplies
MaxOther == 4

----------------------------------------------------------------------------
(* Literals of the source *)

Pages == <<"Dashboard", "Field Map", "Drone Flight", "Soil Analytics">>

Conditions == <<"Sunny", "Cloudy", "Storm">>

WindDirections == <<"North", "East", "South", "West">>

\* range(24)
NumHours == 24

\* time.sleep(1.5), counted in half-seconds
SleepTicks == 3

Range(s) == {s[i] : i \in 1..Len(s)}

\* values that are not options of the selectbox
OtherPool == <<"Rainy", "", "sunny", "STORM", "Snow", "Fog", "Cloudy ">>

OtherValues == {OtherPool[i] : i \in 1..MaxOther}

Inputs == Range(Conditions) \cup OtherValues

----------------------------------------------------------------------------
(* Helper functions *)

\* get_weather_impact with the tuples of Cloudy and Storm exchanged
get_weather_impact_swapped(weather) ==
    IF weather = "Sunny" THEN <<94, "200Wh/day", "Normal">>
    ELSE IF weather = "Cloudy" THEN <<28, "10Wh/day", "Deep Sleep">>
    ELSE <<65, "140Wh/day", "Conservation Mode">>

\* get_weather_impact with a third test and no tuple for any other value
get_weather_impact_strict(weather) ==
    IF weather = "Sunny" THEN <<94, "200Wh/day", "Normal">>
    ELSE IF weather = "Cloudy" THEN <<65, "140Wh/day", "Conservation Mode">>
    ELSE IF weather = "Storm" THEN <<28, "10Wh/day", "Deep Sleep">>
    ELSE <<>>

\* get_weather_impact reading a second widget besides its argument
get_weather_impact_ambient(weather) ==
    IF weather = "Sunny" THEN <<94, "200Wh/day", "Normal">>
    ELSE IF weather = "Cloudy" THEN <<65, "140Wh/day", "Conservation Mode">>
    ELSE IF wind_dir = "West" THEN <<20, "10Wh/day", "Deep Sleep">>
    ELSE <<28, "10Wh/day", "Deep Sleep">>

\* get_weather_impact with a mistyped battery level
get_weather_impact_typo(weather) ==
    IF weather = "Sunny" THEN <<94, "200Wh/day", "Normal">>
    ELSE IF weather = "Cloudy" THEN <<65, "140Wh/day", "Conservation Mode">>
    ELSE <<280, "10Wh/day", "Deep Sleep">>

\* def get_weather_impact(weather)
get_weather_impact(weather) ==
    IF weather = "Sunny" THEN <<94, "200Wh/day", "Normal">>
    ELSE IF weather = "Cloudy" THEN <<65, "140Wh/day", "Conservation Mode">>
    ELSE <<28, "10Wh/day", "Deep Sleep">>

\* batt_level, solar_input, mode = get_weather_impact(weather_state)
batt_level == impact[1]
solar_input == impact[2]
mode == impact[3]

\* hours counted from 1: list(range(1, 25))
hours_list_from_one == [i \in 1..NumHours |-> i]

\* hours = list(range(24))
hours_list == [i \in 1..NumHours |-> i - 1]

\* the Sunny sample with the branch taken at x <= 12
sunny_sample_le(x) == IF x <= 12 THEN 2 * (50 + (x * 2)) ELSE (2 * 74) - x

\* 50 + (x * 2) if x < 12 else 74 - (x * 0.5), in half-units
sunny_sample(x) == IF x < 12 THEN 2 * (50 + (x * 2)) ELSE (2 * 74) - x

\* the non-Sunny sample falling 3 per hour instead of 1.5
other_sample_steep(x) == (2 * 60) - (x * 6)

\* 60 - (x * 1.5), in half-units
other_sample(x) == (2 * 60) - (x * 3)

\* a third branch: Storm with a curve of its own
energy_profile_storm(weather, hrs) ==
    IF weather = "Sunny"
    THEN [i \in 1..Len(hrs) |-> sunny_sample(hrs[i])]
    ELSE IF weather = "Cloudy"
    THEN [i \in 1..Len(hrs) |-> other_sample(hrs[i])]
    ELSE [i \in 1..Len(hrs) |-> (2 * 30) - hrs[i]]

\* no series for a value that is not an option
energy_profile_strict(weather, hrs) ==
    IF weather = "Sunny"
    THEN [i \in 1..Len(hrs) |-> sunny_sample(hrs[i])]
    ELSE IF weather \in {"Cloudy", "Storm"}
    THEN [i \in 1..Len(hrs) |-> other_sample(hrs[i])]
    ELSE <<>>

\* the two list comprehensions over hours
energy_profile(weather, hrs) ==
    IF weather = "Sunny"
    THEN [i \in 1..Len(hrs) |-> sunny_sample(hrs[i])]
    ELSE [i \in 1..Len(hrs) |-> other_sample(hrs[i])]

\* the history with one more cycle, cut to the last HistLen
Remember(w, ret, series) ==
    LET h == Append(history, [condition |-> w, ret |-> ret, series |-> series])
    IN  IF Len(h) > HistLen THEN Tail(h) ELSE h

----------------------------------------------------------------------------
(* Initial state: the first execution of the script, every widget at its   *)
(* default (the first option), nothing on the screen yet.                  *)

Init ==
    /\ page = Pages[1]
    /\ weather_state = Conditions[1]
    /\ wind_dir = WindDirections[1]
    /\ clicked = FALSE
    /\ pc = "start"
    /\ impact = <<>>
    /\ hours = <<>>
    /\ energy = <<>>
    /\ metrics = <<>>
    /\ chart = <<>>
    /\ content = ""
    /\ spinner = FALSE
    /\ elapsed = 0
    /\ success = FALSE
    /\ history = <<>>

----------------------------------------------------------------------------
(* User interactions.  Each one changes one widget of the page on screen   *)
(* and makes Streamlit execute the script again from its first line: the   *)
(* locals of the previous run are gone and the screen is rebuilt.          *)

Rerun ==
    /\ pc' = "start"
    /\ impact' = <<>>
    /\ hours' = <<>>
    /\ energy' = <<>>
    /\ metrics' = <<>>
    /\ chart' = <<>>
    /\ content' = ""
    /\ spinner' = FALSE
    /\ elapsed' = 0
    /\ success' = FALSE
    /\ UNCHANGED history

\* st.radio("Navigate", [...]) in the sidebar
Navigate(p) ==
    /\ pc = "idle"
    /\ p # page
    /\ page' = p
    /\ clicked' = FALSE
    /\ Rerun
    /\ UNCHANGED <<weather_state, wind_dir>>

\* st.selectbox("Simulate Weather Condition", ["Sunny", "Cloudy", "Storm"])
SelectWeather(w) ==
    /\ pc = "idle"
    /\ page = "Dashboard"
    /\ w # weather_state
    /\ weather_state' = w
    /\ clicked' = FALSE
    /\ Rerun
    /\ UNCHANGED <<page, wind_dir>>

\* st.selectbox("Wind Direction", ["North", "East", "South", "West"])
SelectWind(d) ==
    /\ pc = "idle"
    /\ page = "Drone Flight"
    /\ d # wind_dir
    /\ wind_dir' = d
    /\ clicked' = FALSE
    /\ Rerun
    /\ UNCHANGED <<page, weather_state>>

\* a press of st.button("Calculate Optimal Path"): True in the run it starts
ClickCalculate ==
    /\ pc = "idle"
    /\ page = "Drone Flight"
    /\ clicked' = TRUE
    /\ Rerun
    /\ UNCHANGED <<page, weather_state, wind_dir>>

\* a press of st.button("Export Data"): its value is not used
ClickExport ==
    /\ pc = "idle"
    /\ page = "Soil Analytics"
    /\ clicked' = FALSE
    /\ Rerun
    /\ UNCHANGED <<page, weather_state, wind_dir>>

----------------------------------------------------------------------------
(* The script *)

\* the sidebar and the page routing at the end of the file
route ==
    /\ pc = "start"
    /\ pc' = CASE page = "Dashboard" -> "show_dashboard"
               [] page = "Field Map" -> "show_field_map"
               [] page = "Drone Flight" -> "show_drone_planner"
               [] page = "Soil Analytics" -> "show_analytics"
    /\ UNCHANGED <<page, weather_state, wind_dir, clicked, impact, hours,
                   energy, metrics, chart, content, spinner, elapsed,
                   success, history>>

\* def show_dashboard(): resolve the selected condition, show the metrics,
\* build the 24-hour series and plot it
show_dashboard ==
    /\ pc = "show_dashboard"
    /\ impact' = get_weather_impact(weather_state)
    /\ metrics' = <<<<impact'[1], "%">>, impact'[2], impact'[3], "Active">>
    /\ hours' = hours_list
    /\ energy' = energy_profile(weather_state, hours')
    /\ chart' = <<hours', energy'>>
    /\ history' = Remember(weather_state, impact', energy')
    /\ content' = "Dashboard"
    /\ pc' = "idle"
    /\ UNCHANGED <<page, weather_state, wind_dir, clicked, spinner, elapsed,
                   success>>

\* def show_field_map(): static polygons
show_field_map ==
    /\ pc = "show_field_map"
    /\ content' = "Field Map"
    /\ pc' = "idle"
    /\ UNCHANGED <<page, weather_state, wind_dir, clicked, impact, hours,
                   energy, metrics, chart, spinner, elapsed, success, history>>

\* def show_analytics(): static curves
show_analytics ==
    /\ pc = "show_analytics"
    /\ content' = "Soil Analytics"
    /\ pc' = "idle"
    /\ UNCHANGED <<page, weather_state, wind_dir, clicked, impact, hours,
                   energy, metrics, chart, spinner, elapsed, success, history>>

\* def show_drone_planner(), up to the button: when it was pressed the
\* spinner opens and the run goes to sleep, otherwise straight to the chart
show_drone_planner ==
    /\ pc = "show_drone_planner"
    /\ content' = "Drone Flight"
    /\ spinner' = clicked
    /\ pc' = IF clicked THEN "sleep" ELSE "drone_chart"
    /\ UNCHANGED <<page, weather_state, wind_dir, clicked, impact, hours,
                   energy, metrics, chart, elapsed, success, history>>

\* time.sleep(1.5): half a second passes
sleep_tick ==
    /\ pc = "sleep"
    /\ elapsed < SleepTicks
    /\ elapsed' = elapsed + 1
    /\ UNCHANGED <<page, weather_state, wind_dir, clicked, pc, impact, hours,
                   energy, metrics, chart, content, spinner, success, history>>

\* the spinner left without waiting for the sleep to end
spinner_exit_early ==
    /\ pc = "sleep"
    /\ spinner' = FALSE
    /\ pc' = "st_success"
    /\ UNCHANGED <<page, weather_state, wind_dir, clicked, impact, hours,
                   energy, metrics, chart, content, elapsed, success, history>>

\* time.sleep returns and the with-block of the spinner is left
spinner_exit ==
    /\ pc = "sleep"
    /\ elapsed = SleepTicks
    /\ spinner' = FALSE
    /\ pc' = "st_success"
    /\ UNCHANGED <<page, weather_state, wind_dir, clicked, impact, hours,
                   energy, metrics, chart, content, elapsed, success, history>>

\* st.success("Path Optimized: 30% Battery Saving predicted.")
st_success ==
    /\ pc = "st_success"
    /\ success' = TRUE
    /\ pc' = "drone_chart"
    /\ UNCHANGED <<page, weather_state, wind_dir, clicked, impact, hours,
                   energy, metrics, chart, content, spinner, elapsed, history>>

\* the coverage-path figure of show_drone_planner; the run ends
drone_chart ==
    /\ pc = "drone_chart"
    /\ chart' = <<<<10, 20, 20, 30, 30, 40, 40, 50>>,
                  <<10, 10, 40, 40, 10, 10, 40, 40>>>>
    /\ pc' = "idle"
    /\ UNCHANGED <<page, weather_state, wind_dir, clicked, impact, hours,
                   energy, metrics, content, spinner, elapsed, success,
                   history>>

UserStep ==
    \/ \E p \in Range(Pages) : Navigate(p)
    \/ \E w \in Range(Conditions) : SelectWeather(w)
    \/ \E d \in Range(WindDirections) : SelectWind(d)
    \/ ClickCalculate
    \/ ClickExport

ScriptStep ==
    \/ route
    \/ show_dashboard
    \/ show_field_map
    \/ show_analytics
    \/ show_drone_planner
    \/ sleep_tick
    \/ spinner_exit
    \/ st_success
    \/ drone_chart

Next == UserStep \/ ScriptStep

Spec == Init /\ [][Next]_vars

\* a script run is executed to its end: Streamlit runs it on one thread,
\* statement after statement
LiveSpec == Spec /\ WF_vars(ScriptStep)

----------------------------------------------------------------------------
(* The two computations as functions of an arbitrary argument: line 80 and *)
(* lines 103-107 with weather_state bound to any value, one of the options *)
(* or not.                                                                 *)

InitFn ==
    /\ page = Pages[1]
    /\ weather_state \in Inputs
    /\ wind_dir = WindDirections[1]
    /\ clicked = FALSE
    /\ pc = "fn_call"
    /\ impact = <<>>
    /\ hours = <<>>
    /\ energy = <<>>
    /\ metrics = <<>>
    /\ chart = <<>>
    /\ content = ""
    /\ spinner = FALSE
    /\ elapsed = 0
    /\ success = FALSE
    /\ history = <<>>

\* get_weather_impact(weather_state) and the series for weather_state
fn_call ==
    /\ pc = "fn_call"
    /\ impact' = get_weather_impact(weather_state)
    /\ hours' = hours_list
    /\ energy' = energy_profile(weather_state, hours')
    /\ history' = Remember(weather_state, impact', energy')
    /\ pc' = "fn_returned"
    /\ UNCHANGED <<page, weather_state, wind_dir, clicked, metrics, chart,
                   content, spinner, elapsed, success>>

\* the next argument
fn_next(w) ==
    /\ pc = "fn_returned"
    /\ weather_state' = w
    /\ impact' = <<>>
    /\ hours' = <<>>
    /\ energy' = <<>>
    /\ pc' = "fn_call"
    /\ UNCHANGED <<page, wind_dir, clicked, metrics, chart, content, spinner,
                   elapsed, success, history>>

NextFn == fn_call \/ \E w \in Inputs : fn_next(w)

SpecFn == InitFn /\ [][NextFn]_vars

----------------------------------------------------------------------------
(* Properties *)

Rendered == content = "Dashboard"

Returned == pc = "fn_returned"

IsOption(w) == w \in {"Sunny", "Cloudy", "Storm"}

\* C1 (as amended): once the dashboard is rendered, the resolved tuple is the
\* row of the lookup table for the selected condition, Sunny -> (94,
\* "200Wh/day", "Normal"), Cloudy -> (65, "140Wh/day", "Conservation Mode"),
\* Storm -> (28, "10Wh/day", "Deep Sleep"), the operating mode being one of
\* the strings "Normal", "Conservation Mode", "Deep Sleep".
C1_LookupTable ==
    Rendered =>
        /\ weather_state = "Sunny" => impact = <<94, "200Wh/day", "Normal">>
        /\ weather_state = "Cloudy" =>
               impact = <<65, "140Wh/day", "Conservation Mode">>
        /\ weather_state = "Storm" => impact = <<28, "10Wh/day", "Deep Sleep">>
        /\ mode \in {"Normal", "Conservation Mode", "Deep Sleep"}

\* C1 as stated: the same table with the operating-mode labels Normal,
\* ConservationMode, DeepSleep.
C1_SpecLabels ==
    Rendered =>
        /\ weather_state = "Sunny" => impact = <<94, "200Wh/day", "Normal">>
        /\ weather_state = "Cloudy" =>
               impact = <<65, "140Wh/day", "ConservationMode">>
        /\ weather_state = "Storm" => impact = <<28, "10Wh/day", "DeepSleep">>
        /\ mode \in {"Normal", "ConservationMode", "DeepSleep"}

\* all three conditions have been resolved and rendered, Cloudy being on screen
C1_Witness ==
    /\ Rendered
    /\ weather_state = "Cloudy"
    /\ {history[i].condition : i \in 1..Len(history)} = Range(Conditions)

\* C2 (as amended): get_weather_impact called with a value outside {Sunny,
\* Cloudy, Storm} raises nothing and returns the Storm tuple (28, "10Wh/day",
\* "Deep Sleep").
C2_OtherValueIsStorm ==
    (Returned /\ ~IsOption(weather_state)) =>
        impact = <<28, "10Wh/day", "Deep Sleep">>

\* C2 as stated: a call with a value outside {Sunny, Cloudy, Storm} fails and
\* returns no tuple.
C2_InvalidConditionError ==
    (Returned /\ ~IsOption(weather_state)) => impact = <<>>

\* get_weather_impact has returned from a call with a value that is no option
C2_Witness == Returned /\ ~IsOption(weather_state) /\ impact # <<>>

\* C3 (as amended): the energy-series computation given a value outside
\* {Sunny, Cloudy, Storm} raises nothing and produces the 24 samples of the
\* Cloudy/Storm formula, 60 - 1.5*h.
C3_OtherValueIsCloudySeries ==
    (Returned /\ ~IsOption(weather_state)) =>
        /\ Len(energy) = 24
        /\ \A h \in 0..23 : energy[h + 1] = 120 - (3 * h)

\* C3 as stated: given a value outside {Sunny, Cloudy, Storm} the computation
\* fails and produces no series.
C3_NoSeriesForOtherValue ==
    (Returned /\ ~IsOption(weather_state)) => energy = <<>>

\* a series has been computed for a value that is no option
C3_Witness == Returned /\ weather_state \in OtherValues /\ energy # <<>>

\* C4: for Sunny, energy[h] = 50 + 2*h for h < 12 and 74 - 0.5*h for h >= 12;
\* energy[0] = 50, energy[11] = 72, energy[12] = 68, energy[23] = 62.5
\* (half-units: 100, 144, 136, 125).
C4_SunnySeries ==
    (Rendered /\ weather_state = "Sunny") =>
        /\ \A h \in 0..23 :
               energy[h + 1] = IF h < 12 THEN 100 + (4 * h) ELSE 148 - h
        /\ energy[0 + 1] = 100
        /\ energy[11 + 1] = 144
        /\ energy[12 + 1] = 136
        /\ energy[23 + 1] = 125

\* the dashboard is rendered for Sunny
C4_Witness == Rendered /\ weather_state = "Sunny" /\ energy # <<>>

\* C5: for Cloudy, energy[h] = 60 - 1.5*h (energy[0] = 60, energy[23] = 25.5;
\* half-units 120 and 51), and a series generated for Storm equals, sample by
\* sample, a series generated for Cloudy.
C5_CloudyStormSeries ==
    /\ (Rendered /\ weather_state = "Cloudy") =>
           /\ \A h \in 0..23 : energy[h + 1] = 120 - (3 * h)
           /\ energy[0 + 1] = 120
           /\ energy[23 + 1] = 51
    /\ \A i, j \in 1..Len(history) :
           (history[i].condition = "Cloudy" /\ history[j].condition = "Storm")
               => /\ Len(history[j].series) = Len(history[i].series)
                  /\ \A k \in 1..Len(history[i].series) :
                         history[j].series[k] = history[i].series[k]

\* Cloudy is on screen and a Storm series was generated before it
C5_Witness ==
    /\ Rendered
    /\ weather_state = "Cloudy"
    /\ \E j \in 1..Len(history) : history[j].condition = "Storm"

\* C6: for every condition the series has exactly 24 samples, one per hour
\* index 0..23 in increasing order of hour index, and is plotted against them.
C6_TwentyFourSamples ==
    Rendered =>
        /\ Len(energy) = 24
        /\ Len(hours) = 24
        /\ \A i \in 1..24 : hours[i] = i - 1
        /\ chart = <<hours, energy>>

\* series have been rendered for all three conditions
C6_Witness ==
    /\ Rendered
    /\ chart # <<>>
    /\ \A c \in Range(Conditions) :
           \E i \in 1..Len(history) : history[i].condition = c

\* C7: in any sequence of resolve-and-render cycles, two cycles with the same
\* condition yield the same battery level, solar label, operating mode and
\* energy series, whatever was selected in between.
C7_HistoryIndependent ==
    \A i, j \in 1..Len(history) :
        history[i].condition = history[j].condition =>
            /\ history[i].ret = history[j].ret
            /\ history[i].series = history[j].series

\* the same condition was resolved twice with another one in between
C7_Witness ==
    \E i, k, j \in 1..Len(history) :
        /\ i < k
        /\ k < j
        /\ history[i].condition = history[j].condition
        /\ history[k].condition # history[i].condition

\* C8: whatever value get_weather_impact is called with, the battery level it
\* returns is an integer in 0..100.
C8_BatteryPercent == Returned => batt_level \in 0..100

\* get_weather_impact has returned, for an option and for another value
C8_Witness ==
    /\ Returned
    /\ \E i, j \in 1..Len(history) :
           IsOption(history[i].condition) /\ ~IsOption(history[j].condition)

C10_SamplesInRange ==
    Rendered =>
        \A i \in 1..Len(energy) :
            /\ energy[i] >= 0
            /\ energy[i] <= 200
            /\ weather_state = "Sunny" => (energy[i] >= 100 /\ energy[i] <= 144)
            /\ weather_state \in {"Cloudy", "Storm"} =>
                   (energy[i] >= 51 /\ energy[i] <= 120)

\* the dashboard is rendered for Storm, the series with the lowest samples
C10_Witness == Rendered /\ weather_state = "Storm" /\ Len(energy) = NumHours

====
